---- MODULE Spec2Model ----
(***************************************************************************)
(* Model of app.py: a Flask service answering read-only queries over the   *)
(* ns.annotations_terms, ns.coordinates and ns.metadata tables.            *)
(*                                                                         *)
(* Strings that the code takes apart (the coordinate path parameters) are  *)
(* sequences of one-character strings; DB_URL is a sequence of tokens      *)
(* (scheme prefix, remainder).  An optional value (Python None) is a       *)
(* sequence of length 0 or 1.                                              *)
(***************************************************************************)
EXTENDS Integers, Sequences, FiniteSets, TLC

VARIABLES
    DB_URL,       \* os.environ["DB_URL"]: <<>> when unset, else <<url>>
    _engine,      \* the module global _engine: <<>> (None) or <<handle>>
    created,      \* number of create_engine calls that returned so far
    store,        \* the three tables of schema ns, each a sequence of rows
    search_path,  \* session search_path of the pooled connection
    resp,         \* the response to the last request handled
    first,        \* the first query response built without a store failure
    pending,      \* the path parameters of the request about to be handled
    pc,           \* per-thread position in get_engine
    local,        \* per-thread locals of get_engine: db_url and the new engine
    ret           \* per-thread sequence of the results of its get_engine calls

vars == <<DB_URL, _engine, created, store, search_path, resp, first, pending, pc, local, ret>>

threadVars == <<pc, local, ret>>

-----------------------------------------------------------------------------
(* Bounds *)

MaxRows == 3        \* total number of rows in the three tables
NumThreads == 2     \* simultaneously handled requests
MaxCalls == 2       \* requests each thread handles
MaxCoordLen == 6    \* length of the generated coordinate path parameters

Studies == {1, 2}                      \* study ids occurring in the store
Terms == {"a", "b"}                    \* terms occurring in the store
TermInputs == Terms                    \* path parameters
Points == {<<1, 2, 3>>, <<3, 2, 1>>}   \* geometries occurring in the store
Threads == 1 .. NumThreads

-----------------------------------------------------------------------------
(* Generic helpers *)

Range(s) == {s[i] : i \in DOMAIN s}

Min(a, b) == IF a < b THEN a ELSE b

\* every arrangement of the elements of S as a duplicate-free sequence
SeqsOfSet(S) == {s \in [1 .. Cardinality(S) -> S] : Range(s) = S}

\* all sequences over S of length at most n
SeqsUpTo(S, n) == UNION {[1 .. k -> S] : k \in 0 .. n}

NoDuplicates(s) == \A i, j \in DOMAIN s : i # j => s[i] # s[j]

-----------------------------------------------------------------------------
(* The relational store (external collaborator) *)

AnnotationRows == [study_id : Studies, term : Terms]
CoordinateRows == {[study_id |-> s, x |-> p[1], y |-> p[2], z |-> p[3]] : s \in Studies, p \in Points}
MetadataRows == [study_id : {1}]

\* The order of a table's rows is visible only through the order in which the
\* store returns them, which the queries below leave to the store; a table is
\* therefore kept as the sorted sequence of its rows (duplicates included).
TermRank(t) == IF t = "a" THEN 0 ELSE 1
PointRank(r) == IF <<r.x, r.y, r.z>> = <<1, 2, 3>> THEN 0 ELSE 1
AnnotationRank(r) == 2 * r.study_id + TermRank(r.term)
CoordinateRank(r) == 2 * r.study_id + PointRank(r)
MetadataRank(r) == r.study_id

Tables(rows, rank(_)) ==
    {t \in SeqsUpTo(rows, MaxRows) :
        \A i, j \in DOMAIN t : i < j => rank(t[i]) <= rank(t[j])}

Stores ==
    {[annotations_terms |-> a, coordinates |-> c, metadata |-> m] :
        a \in Tables(AnnotationRows, AnnotationRank),
        c \in Tables(CoordinateRows, CoordinateRank),
        m \in Tables(MetadataRows, MetadataRank)}

BoundedStores == {s \in Stores :
    Len(s.annotations_terms) + Len(s.coordinates) + Len(s.metadata) <= MaxRows}

DefaultPath == <<"$user", "public">>
NsPublicPath == <<"ns", "public">>

\* SELECT study_id without DISTINCT: one row per selected row
SelectStudyIds(rows) == {[i \in DOMAIN rows |-> rows[i].study_id]}

\* SELECT DISTINCT study_id over the selected rows: one row per distinct
\* study_id, in an order the store chooses
SelectDistinctStudyIds(rows) == SeqsOfSet({r.study_id : r \in Range(rows)})

\* ... FROM annotations_terms, the table name left to the session's search_path
TermRowsUnqualified(term) ==
    IF Head(search_path) = "ns"
    THEN SelectSeq(store.annotations_terms, LAMBDA r : r.term = term)
    ELSE <<>>

\* ... FROM ns.annotations_terms WHERE term = :term
TermRows(term) == SelectSeq(store.annotations_terms, LAMBDA r : r.term = term)

\* ... FROM ns.coordinates WHERE ST_X(geom) = :x AND ST_Y(geom) = :y AND ST_Z(geom) = :z
PointRows(p) ==
    SelectSeq(store.coordinates, LAMBDA r : r.x = p[1] /\ r.y = p[2] /\ r.z = p[3])

\* ... AND study_id IN (...), the NOT dropped
InSubquery(rows, excluded) ==
    SelectSeq(rows, LAMBDA r : r.study_id \in {e.study_id : e \in Range(excluded)})

\* ... AND study_id NOT IN (SELECT study_id FROM ... WHERE <b>)
NotIn(rows, excluded) ==
    SelectSeq(rows, LAMBDA r : r.study_id \notin {e.study_id : e \in Range(excluded)})

\* SELECT ... LIMIT 3: at most three rows of the table, which ones is the
\* store's choice; they come in the table's scan order
Limit3(table) ==
    LET n == Min(3, Len(table))
    IN  {[i \in 1 .. n |-> table[f[i]]] :
            f \in {g \in [1 .. n -> DOMAIN table] : \A i, j \in 1 .. n : i < j => g[i] < g[j]}}

\* whether a statement of the request fails in the store or the driver
\* (connecting in eng.begin(), executing, or committing on leaving the block)
QueryFaults == {"none", "OperationalError"}

-----------------------------------------------------------------------------
(* Connection manager *)

LegacyUrl == <<"postgres://", "user@host/db">>
CurrentUrl == <<"postgresql://", "user@host/db">>
EmptyUrl == <<>>
Environments == {<<>>, <<EmptyUrl>>, <<LegacyUrl>>}

\* db_url.startswith("postgres://") and the replacement of that prefix
Normalize(db_url) ==
    IF Len(db_url) >= 1 /\ db_url[1] = "postgres://"
    THEN <<"postgresql://">> \o Tail(db_url)
    ELSE db_url

NoLocals == [db_url |-> <<>>, made |-> <<>>]

create_engine(db_url, n) == [url |-> db_url, pool_pre_ping |-> TRUE, id |-> n]

\* get_engine without the test of db_url
get_engine_unchecked ==
    IF _engine # <<>> THEN
        [raised |-> FALSE, handle |-> _engine, global |-> _engine, made |-> 0]
    ELSE
        LET e == create_engine(IF DB_URL = <<>> THEN <<>> ELSE Normalize(DB_URL[1]), created + 1)
        IN  [raised |-> FALSE, handle |-> <<e>>, global |-> <<e>>, made |-> 1]

\* get_engine called with no other call in progress: what it raises or returns,
\* and the value of _engine afterwards
get_engine ==
    IF _engine # <<>> THEN
        [raised |-> FALSE, handle |-> _engine, global |-> _engine, made |-> 0]
    ELSE IF DB_URL = <<>> \/ DB_URL[1] = <<>> THEN
        [raised |-> TRUE, handle |-> <<>>, global |-> _engine, made |-> 0]
    ELSE
        LET e == create_engine(Normalize(DB_URL[1]), created + 1)
        IN  [raised |-> FALSE, handle |-> <<e>>, global |-> <<e>>, made |-> 1]

\* eng.dialect.name, which create_engine derives from the URL scheme
DialectName(handle) ==
    IF Len(handle[1].url) >= 1 /\ handle[1].url[1] = "postgresql://"
    THEN "postgresql" ELSE "unknown"

-----------------------------------------------------------------------------
(* Responses *)

NoResponse == [kind |-> "none", route |-> "", req |-> <<>>, status |-> 0,
               body |-> <<>>, fault |-> "none"]

\* a response the handler builds with jsonify
Json(route, req, status, body, fault) ==
    [kind |-> "json", route |-> route, req |-> req, status |-> status,
     body |-> body, fault |-> fault]

\* an exception that leaves the handler: the framework answers with its own
\* error page
Escaped(route, req, exc) ==
    [kind |-> "exception", route |-> route, req |-> req, status |-> 500,
     body |-> [exception |-> exc], fault |-> "none"]

\* f-string messages: the format and the interpolated values
Msg(fmt, args) == [fmt |-> fmt, args |-> args]

StoreError(fault) == Msg("str(e)", <<fault>>)

\* the try block without `if not study_ids`
run_query_no_404(rows) ==
    {[status |-> 500, study_ids |-> <<>>, fault |-> f] : f \in QueryFaults \ {"none"}}
    \cup
    {[status |-> 200, study_ids |-> study_ids, fault |-> "none"] :
        study_ids \in SelectDistinctStudyIds(rows)}

\* the try block shared by the four query handlers: run the query inside
\* eng.begin(); any exception gives 500, no row gives 404, rows give 200
run_query(rows) ==
    {[status |-> 500, study_ids |-> <<>>, fault |-> f] : f \in QueryFaults \ {"none"}}
    \cup
    {[status |-> IF study_ids = <<>> THEN 404 ELSE 200, study_ids |-> study_ids,
      fault |-> "none"] : study_ids \in SelectDistinctStudyIds(rows)}

\* the jsonify(...) of each outcome
QueryResponses(route, req, rows, notFound, okFields) ==
    {Json(route, req, o.status,
          CASE o.status = 500 -> [error |-> StoreError(o.fault)]
            [] o.status = 404 -> [error |-> notFound]
            [] OTHER -> okFields @@ [study_ids |-> o.study_ids],
          o.fault) : o \in run_query(rows)}

\* bookkeeping for the repetition runs, which start with first = NoResponse:
\* the first query response built without a store failure is kept, with the
\* session's search_path at that time; NotRecording switches it off
NotRecording == [kind |-> "off"]

Remember(r) ==
    IF first.kind = "none" /\ r.kind = "json" /\ r.fault = "none" /\ r.route # "test_db"
    THEN r @@ [path |-> search_path] ELSE first

-----------------------------------------------------------------------------
(* Coordinate path parameters: coords.split("_") and int() *)

Digits == {"0", "1", "2", "3", "4", "5", "6", "7", "8", "9"}

DigitValue(c) ==
    CASE c = "0" -> 0 [] c = "1" -> 1 [] c = "2" -> 2 [] c = "3" -> 3 [] c = "4" -> 4
      [] c = "5" -> 5 [] c = "6" -> 6 [] c = "7" -> 7 [] c = "8" -> 8 [] c = "9" -> 9

\* str.split("_"): the pieces between separators, empty pieces included
RECURSIVE split(_)
split(s) ==
    IF \A i \in DOMAIN s : s[i] # "_" THEN <<s>>
    ELSE LET i == CHOOSE k \in DOMAIN s : s[k] = "_" /\ \A j \in 1 .. k - 1 : s[j] # "_"
         IN  <<SubSeq(s, 1, i - 1)>> \o split(SubSeq(s, i + 1, Len(s)))

\* str.strip() as int() applies it to its argument
RECURSIVE strip(_)
strip(s) ==
    IF s = <<>> THEN s
    ELSE IF Head(s) = " " THEN strip(Tail(s))
    ELSE IF s[Len(s)] = " " THEN strip(SubSeq(s, 1, Len(s) - 1))
    ELSE s

RECURSIVE DecimalValue(_)
DecimalValue(ds) ==
    IF ds = <<>> THEN 0
    ELSE 10 * DecimalValue(SubSeq(ds, 1, Len(ds) - 1)) + DigitValue(ds[Len(ds)])

ParseError == [ok |-> FALSE, value |-> 0]

\* int(token): surrounding blanks, an optional sign, then decimal digits
int(token) ==
    LET t == strip(token)
        signed == t # <<>> /\ Head(t) \in {"+", "-"}
        ds == IF signed THEN Tail(t) ELSE t
    IN  IF ds = <<>> \/ \E i \in DOMAIN ds : ds[i] \notin Digits THEN ParseError
        ELSE [ok |-> TRUE,
              value |-> IF signed /\ Head(t) = "-" THEN 0 - DecimalValue(ds) ELSE DecimalValue(ds)]

\* x, y, z = the first three items, the rest of the iterator ignored
unpack_lenient(tokens, i, acc) ==
    IF Len(tokens) < 3 \/ \E k \in 1 .. 3 : ~int(tokens[k]).ok
    THEN [ok |-> FALSE, point |-> <<>>]
    ELSE [ok |-> TRUE, point |-> [k \in 1 .. 3 |-> int(tokens[k]).value]]

\* x, y, z = map(int, tokens): the targets are filled from the iterator one
\* by one, and a fourth item is asked for to see that there is none
RECURSIVE unpack(_, _, _)
unpack(tokens, i, acc) ==
    IF i > 3 THEN
        IF Len(tokens) >= i THEN [ok |-> FALSE, point |-> <<>>]
        ELSE [ok |-> TRUE, point |-> acc]
    ELSE IF Len(tokens) < i THEN [ok |-> FALSE, point |-> <<>>]
    ELSE LET v == int(tokens[i])
         IN  IF v.ok THEN unpack(tokens, i + 1, Append(acc, v.value))
             ELSE [ok |-> FALSE, point |-> <<>>]

parse_coords(coords) == unpack(split(coords), 1, <<>>)

InvalidCoordinates(route, req) ==
    Json(route, req, 400, [error |-> Msg("Invalid coordinates format. Use x_y_z.", <<>>)], "none")

\* the path parameters the service is exercised with
C123 == <<"1", "_", "2", "_", "3">>
C321 == <<"3", "_", "2", "_", "1">>
Cabc == <<"a", "_", "b", "_", "c">>
SampleCoords == {C123, C321, Cabc}

-----------------------------------------------------------------------------
(* Handlers, each handled to completion *)

health ==
    /\ resp' = [kind |-> "text", route |-> "health", req |-> <<>>, status |-> 200,
                body |-> "<p>Server working!</p>", fault |-> "none"]
    /\ first' = Remember(resp')
    /\ UNCHANGED <<DB_URL, _engine, created, store, search_path, pending, threadVars>>

show_img ==
    /\ \E present \in BOOLEAN :
        resp' = IF present
                THEN [kind |-> "file", route |-> "show_img", req |-> <<>>, status |-> 200,
                      body |-> "amygdala.gif", fault |-> "none"]
                ELSE Escaped("show_img", <<>>, "FileNotFoundError")
    /\ first' = Remember(resp')
    /\ UNCHANGED <<DB_URL, _engine, created, store, search_path, pending, threadVars>>

\* a handler whose next step is eng = get_engine(), then one of `answers`
WithEngine(route, req, answers) ==
    LET g == get_engine
    IN  /\ _engine' = g.global
        /\ created' = created + g.made
        /\ IF g.raised
           THEN resp' = Escaped(route, req, "RuntimeError")
           ELSE resp' \in answers
        /\ first' = Remember(resp')
        /\ UNCHANGED <<DB_URL, store, search_path, pending, threadVars>>

get_studies_by_term(inputs) ==
    \E term \in inputs :
        WithEngine("terms_studies", <<term>>,
            QueryResponses("terms_studies", <<term>>, TermRows(term),
                Msg("Term '{term}' not found.", <<term>>),
                [term |-> term]))

dissociate_terms(inputs_a, inputs_b) ==
    \E term_a \in inputs_a, term_b \in inputs_b :
        WithEngine("dissociate_terms", <<term_a, term_b>>,
            QueryResponses("dissociate_terms", <<term_a, term_b>>,
                NotIn(TermRows(term_a), TermRows(term_b)),
                Msg("No studies found for '{term_a}' without '{term_b}'.", <<term_a, term_b>>),
                [term_a |-> term_a, term_b |-> term_b]))


\* a handler that answers before it needs the connection handle
WithoutEngine(answer) ==
    /\ resp' = answer
    /\ first' = Remember(resp')
    /\ UNCHANGED <<DB_URL, _engine, created, store, search_path, pending, threadVars>>

get_studies_by_coordinates(inputs) ==
    \E coords \in inputs :
        LET c == parse_coords(coords)
            p == c.point
        IN  IF ~c.ok
            THEN WithoutEngine(InvalidCoordinates("locations_studies", <<coords>>))
            ELSE WithEngine("locations_studies", <<coords>>,
                    QueryResponses("locations_studies", <<coords>>, PointRows(p),
                        Msg("Coordinates [{x}, {y}, {z}] not found.", p),
                        [coordinates |-> p]))

dissociate_locations(inputs_a, inputs_b) ==
    \E coords_a \in inputs_a, coords_b \in inputs_b :
        LET a == parse_coords(coords_a)
            b == parse_coords(coords_b)
        IN  IF ~a.ok \/ ~b.ok
            THEN WithoutEngine(InvalidCoordinates("dissociate_locations", <<coords_a, coords_b>>))
            ELSE WithEngine("dissociate_locations", <<coords_a, coords_b>>,
                    QueryResponses("dissociate_locations", <<coords_a, coords_b>>,
                        NotIn(PointRows(a.point), PointRows(b.point)),
                        Msg("No studies found for [{x1}, {y1}, {z1}] without [{x2}, {y2}, {z2}].",
                            a.point \o b.point),
                        [coords_a |-> a.point, coords_b |-> b.point]))

-----------------------------------------------------------------------------
(* GET /test_db *)

\* the statements of test_db in the order the handler issues them; "begin"
\* and "commit" are the entry and exit of `with eng.begin()`
TestDbSteps ==
    <<"begin", "set_search_path", "version", "coordinates_count", "metadata_count",
      "annotations_terms_count", "coordinates_sample", "metadata_sample",
      "annotations_terms_sample", "commit">>

Samples == {"coordinates_sample", "metadata_sample", "annotations_terms_sample"}
Unguarded == Range(TestDbSteps) \ Samples

\* the position of a statement in TestDbSteps; "none" (no failure) comes last
StepIndex(step) ==
    CASE step = "begin" -> 1
      [] step = "set_search_path" -> 2
      [] step = "version" -> 3
      [] step = "coordinates_count" -> 4
      [] step = "metadata_count" -> 5
      [] step = "annotations_terms_count" -> 6
      [] step = "coordinates_sample" -> 7
      [] step = "metadata_sample" -> 8
      [] step = "annotations_terms_sample" -> 9
      [] step = "commit" -> 10
      [] step = "none" -> 11

TableOf(field) ==
    CASE field \in {"coordinates_count", "coordinates_sample"} -> store.coordinates
      [] field \in {"metadata_count", "metadata_sample"} -> store.metadata
      [] field \in {"annotations_terms_count", "annotations_terms_sample"} -> store.annotations_terms

\* the keys of payload when the handler returns: a key is present once the
\* statement that assigns it has completed
PayloadKeys(failAt) ==
    {"ok", "dialect"}
    \cup {k \in Range(TestDbSteps) \ {"begin", "set_search_path", "commit"} :
            StepIndex(k) < StepIndex(failAt)}
    \cup (IF failAt = "none" THEN {} ELSE {"error"})

\* one try/except around the three samples: a failure empties them all
SampleValueShared(name, failed, rows) == IF failed # {} THEN <<>> ELSE rows[name]

\* payload["<name>_sample"]: the rows queried, or [] when the query raised
SampleValue(name, failed, rows) == IF name \in failed THEN <<>> ELSE rows[name]

\* payload["ok"] = True moved into the with block, before the commit
test_db_payload_ok_early(handle, failAt, failed, rows) ==
    [k \in PayloadKeys(failAt) |->
        CASE k = "ok" -> failAt \in {"none", "commit"}
          [] k = "dialect" -> DialectName(handle)
          [] k = "version" -> "PostgreSQL"
          [] k = "error" -> StoreError(failAt)
          [] k \in Samples -> SampleValue(k, failed, rows)
          [] OTHER -> Len(TableOf(k))]

test_db_payload(handle, failAt, failed, rows) ==
    [k \in PayloadKeys(failAt) |->
        CASE k = "ok" -> failAt = "none"
          [] k = "dialect" -> DialectName(handle)
          [] k = "version" -> "PostgreSQL"
          [] k = "error" -> StoreError(failAt)
          [] k \in Samples -> SampleValue(k, failed, rows)
          [] OTHER -> Len(TableOf(k))]

test_db_response(handle, failAt, failed, rows) ==
    [kind |-> "json", route |-> "test_db", req |-> <<>>,
     status |-> IF failAt = "none" THEN 200 ELSE 500,
     body |-> test_db_payload(handle, failAt, failed, rows),
     fault |-> failAt, failed |-> failed]

test_db ==
    LET g == get_engine
    IN  /\ _engine' = g.global
        /\ created' = created + g.made
        /\ IF g.raised
           THEN /\ resp' = Escaped("test_db", <<>>, "RuntimeError")
                /\ UNCHANGED search_path
           ELSE \E failAt \in Unguarded \cup {"none"},
                   cs \in Limit3(store.coordinates),
                   ms \in Limit3(store.metadata),
                   as \in Limit3(store.annotations_terms) :
                \E failed \in IF failAt \in {"none", "commit"} THEN SUBSET Samples ELSE {{}} :
                /\ resp' = test_db_response(g.handle, failAt, failed,
                        [coordinates_sample |-> cs, metadata_sample |-> ms,
                         annotations_terms_sample |-> as])
                \* SET search_path lasts for the session once the transaction
                \* commits; a transaction with a failed statement may be
                \* rolled back by the store at commit
                /\ search_path' \in
                     IF failAt # "none" THEN {search_path}
                     ELSE IF failed = {} THEN {NsPublicPath}
                     ELSE {search_path, NsPublicPath}
        /\ first' = Remember(resp')
        /\ UNCHANGED <<DB_URL, store, pending, threadVars>>

-----------------------------------------------------------------------------
(* The service handling one request at a time *)

Init ==
    /\ DB_URL \in Environments
    /\ _engine = <<>>
    /\ created = 0
    /\ store \in BoundedStores
    /\ search_path = DefaultPath
    /\ resp = NoResponse
    /\ first = NotRecording
    /\ pending = <<>>
    /\ pc = [t \in Threads |-> "idle"]
    /\ local = [t \in Threads |-> NoLocals]
    /\ ret = [t \in Threads |-> <<>>]

Next ==
    \/ health
    \/ show_img
    \/ get_studies_by_term(TermInputs)
    \/ get_studies_by_coordinates(SampleCoords)
    \/ dissociate_terms(TermInputs, TermInputs)
    \/ dissociate_locations(SampleCoords, SampleCoords)
    \/ test_db

Spec == Init /\ [][Next]_vars

-----------------------------------------------------------------------------
(* The service handling requests while remembering its first query answer *)

\* stores of the repetition runs: those with MaxRows - 1 rows at most
RepeatStores == {s \in BoundedStores :
    Len(s.annotations_terms) + Len(s.coordinates) + Len(s.metadata) < MaxRows}

InitRepeat ==
    /\ DB_URL \in Environments
    /\ _engine = <<>>
    /\ created = 0
    /\ store \in RepeatStores
    /\ search_path = DefaultPath
    /\ resp = NoResponse
    /\ first = NoResponse
    /\ pending = <<>>
    /\ pc = [t \in Threads |-> "idle"]
    /\ local = [t \in Threads |-> NoLocals]
    /\ ret = [t \in Threads |-> <<>>]

\* the requests that are repeated: one per query route
NextRepeat ==
    \/ health
    \/ show_img
    \/ get_studies_by_term({"a"})
    \/ get_studies_by_coordinates({C123})
    \/ dissociate_terms({"a"}, {"b"})
    \/ dissociate_locations({C123}, {C321})
    \/ test_db

SpecRepeat == InitRepeat /\ [][NextRepeat]_vars

-----------------------------------------------------------------------------
(* One request to a location route, over generated path parameters *)

CoordChars == {"1", "-", "_", " "}
\* the route's <coords> converter matches non-empty segments only
CoordStrings(n) == SeqsUpTo(CoordChars, n) \ {<<>>}

ExampleCoords ==
    {C123,
     Cabc,
     <<"1", "_", "2">>,
     <<"1", "_", "2", "_", "3", "_", "4">>}

\* a generated string against each example, in either position
IsParseRequest(p, n) ==
    \/ \E a \in CoordStrings(n) \cup ExampleCoords, b \in ExampleCoords : p = <<a, b>>
    \/ \E a \in ExampleCoords, b \in CoordStrings(n) : p = <<a, b>>

ParseStore ==
    [annotations_terms |-> <<>>,
     coordinates |-> <<[study_id |-> 1, x |-> 1, y |-> 1, z |-> 1],
                       [study_id |-> 2, x |-> 1, y |-> 2, z |-> 3]>>,
     metadata |-> <<>>]

InitParse ==
    /\ DB_URL \in {<<>>, <<LegacyUrl>>}
    /\ _engine = <<>>
    /\ created = 0
    /\ store = ParseStore
    /\ search_path = DefaultPath
    /\ resp = NoResponse
    /\ first = NotRecording
    /\ IsParseRequest(pending, MaxCoordLen)
    /\ pc = [t \in Threads |-> "idle"]
    /\ local = [t \in Threads |-> NoLocals]
    /\ ret = [t \in Threads |-> <<>>]

\* the pending request goes to one of the two location routes
locations_request ==
    resp.kind = "none" /\ get_studies_by_coordinates({pending[1]})

dissociate_locations_request ==
    resp.kind = "none" /\ dissociate_locations({pending[1]}, {pending[2]})

NextParse == locations_request \/ dissociate_locations_request

SpecParse == InitParse /\ [][NextParse]_vars

-----------------------------------------------------------------------------
(* get_engine called by simultaneously handled requests, one statement at a  *)
(* time: there is no lock around the test of _engine and its assignment      *)

Goto(t, label) == pc' = [pc EXCEPT ![t] = label]

Returns(t, result) ==
    /\ ret' = [ret EXCEPT ![t] = Append(@, result)]
    /\ local' = [local EXCEPT ![t] = NoLocals]
    /\ Goto(t, "idle")

\* a handler reaches eng = get_engine()
Call(t) ==
    /\ pc[t] = "idle"
    /\ Len(ret[t]) < MaxCalls
    /\ Goto(t, "line12")
    /\ UNCHANGED <<DB_URL, _engine, created, store, search_path, resp, first, pending, local, ret>>

\* if _engine is not None:
Line12(t) ==
    /\ pc[t] = "line12"
    /\ Goto(t, IF _engine # <<>> THEN "line13" ELSE "line14")
    /\ UNCHANGED <<DB_URL, _engine, created, store, search_path, resp, first, pending, local, ret>>

\*     return _engine
Line13(t) ==
    /\ pc[t] = "line13"
    /\ Returns(t, [raised |-> FALSE, handle |-> _engine])
    /\ UNCHANGED <<DB_URL, _engine, created, store, search_path, resp, first, pending>>

\* db_url = os.getenv("DB_URL")
Line14(t) ==
    /\ pc[t] = "line14"
    /\ local' = [local EXCEPT ![t].db_url = DB_URL]
    /\ Goto(t, "line15")
    /\ UNCHANGED <<DB_URL, _engine, created, store, search_path, resp, first, pending, ret>>

\* if not db_url: raise RuntimeError(...)
Line15(t) ==
    /\ pc[t] = "line15"
    /\ IF local[t].db_url = <<>> \/ local[t].db_url[1] = <<>>
       THEN Returns(t, [raised |-> TRUE, handle |-> <<>>])
       ELSE /\ Goto(t, "line18")
            /\ UNCHANGED <<local, ret>>
    /\ UNCHANGED <<DB_URL, _engine, created, store, search_path, resp, first, pending>>

\* if db_url.startswith("postgres://"): db_url = "postgresql://" + ...
Line18(t) ==
    /\ pc[t] = "line18"
    /\ local' = [local EXCEPT ![t].db_url = <<Normalize(@[1])>>]
    /\ Goto(t, "line20")
    /\ UNCHANGED <<DB_URL, _engine, created, store, search_path, resp, first, pending, ret>>

\* create_engine(db_url, pool_pre_ping=True): the call, before its result is stored
Line20Call(t) ==
    /\ pc[t] = "line20"
    /\ created' = created + 1
    /\ local' = [local EXCEPT ![t].made = <<create_engine(local[t].db_url[1], created + 1)>>]
    /\ Goto(t, "line20store")
    /\ UNCHANGED <<DB_URL, _engine, store, search_path, resp, first, pending, ret>>

\* _engine = <the new engine>
Line20Store(t) ==
    /\ pc[t] = "line20store"
    /\ _engine' = local[t].made
    /\ Goto(t, "line24")
    /\ UNCHANGED <<DB_URL, created, store, search_path, resp, first, pending, local, ret>>

\* return _engine
Line24(t) ==
    /\ pc[t] = "line24"
    /\ Returns(t, [raised |-> FALSE, handle |-> _engine])
    /\ UNCHANGED <<DB_URL, _engine, created, store, search_path, resp, first, pending>>

InitConc ==
    /\ DB_URL \in Environments \cup {<<CurrentUrl>>}
    /\ _engine = <<>>
    /\ created = 0
    /\ store = ParseStore
    /\ search_path = DefaultPath
    /\ resp = NoResponse
    /\ first = NotRecording
    /\ pending = <<>>
    /\ pc = [t \in Threads |-> "idle"]
    /\ local = [t \in Threads |-> NoLocals]
    /\ ret = [t \in Threads |-> <<>>]

NextConc ==
    \E t \in Threads :
        \/ Call(t)
        \/ Line12(t)
        \/ Line13(t)
        \/ Line14(t)
        \/ Line15(t)
        \/ Line18(t)
        \/ Line20Call(t)
        \/ Line20Store(t)
        \/ Line24(t)

SpecConc == InitConc /\ [][NextConc]_vars

-----------------------------------------------------------------------------
(* What the properties below are stated in: the store's content read        *)
(* directly, and the sample path parameters decoded by hand                  *)

Configured == DB_URL # <<>> /\ DB_URL[1] # <<>>

QueryRoutes == {"terms_studies", "locations_studies", "dissociate_terms", "dissociate_locations"}
LocationRoutes == {"locations_studies", "dissociate_locations"}

StudiesWithTerm(t) == {r.study_id : r \in {x \in Range(store.annotations_terms) : x.term = t}}

StudiesAtPoint(p) ==
    {r.study_id : r \in {x \in Range(store.coordinates) : <<x.x, x.y, x.z>> = p}}

SamplePoint(c) == IF c = C123 THEN <<1, 2, 3>> ELSE <<3, 2, 1>>

ValidInput(r) ==
    r.route \in LocationRoutes => \A i \in DOMAIN r.req : r.req[i] \in {C123, C321}

\* a request to a query route with valid input whose query meets no store failure
Executed(r) ==
    /\ r.route \in QueryRoutes
    /\ Configured
    /\ ValidInput(r)
    /\ r.fault = "none"

\* the studies the request asks for
Expected(r) ==
    CASE r.route = "terms_studies" -> StudiesWithTerm(r.req[1])
      [] r.route = "dissociate_terms" -> StudiesWithTerm(r.req[1]) \ StudiesWithTerm(r.req[2])
      [] r.route = "locations_studies" -> StudiesAtPoint(SamplePoint(r.req[1]))
      [] r.route = "dissociate_locations" ->
            StudiesAtPoint(SamplePoint(r.req[1])) \ StudiesAtPoint(SamplePoint(r.req[2]))

\* the criterion b of a dissociate request
Excluded(r) ==
    IF r.route = "dissociate_terms" THEN StudiesWithTerm(r.req[2])
    ELSE StudiesAtPoint(SamplePoint(r.req[2]))

\* what a not-found message has to name
Named(r) ==
    CASE r.route \in {"terms_studies", "dissociate_terms"} -> r.req
      [] r.route = "locations_studies" -> SamplePoint(r.req[1])
      [] r.route = "dissociate_locations" -> SamplePoint(r.req[1]) \o SamplePoint(r.req[2])

-----------------------------------------------------------------------------
(* C1 *)

\* C1: for a term with at least one annotation row, GET /terms/{term}/studies
\* (DB_URL configured, no store failure) answers 200 and study_ids holds
\* exactly the distinct study ids annotated with the term, none twice.
C1_TermStudiesExact ==
    (Executed(resp) /\ resp.route = "terms_studies" /\ StudiesWithTerm(resp.req[1]) # {})
    => /\ resp.kind = "json"
       /\ resp.status = 200
       /\ Range(resp.body.study_ids) = StudiesWithTerm(resp.req[1])
       /\ NoDuplicates(resp.body.study_ids)

\* a term annotated by three rows of two studies, answered
C1_Witness ==
    /\ resp.route = "terms_studies"
    /\ resp.status = 200
    /\ Len(resp.body.study_ids) = 2
    /\ Cardinality({i \in DOMAIN store.annotations_terms :
                        store.annotations_terms[i].term = resp.req[1]}) = 3

-----------------------------------------------------------------------------
(* C2 *)

\* C2: for both dissociate routes the answer to (a, b) is the set difference:
\* every study matching a and not b is returned, and nothing else; so the
\* result shares no study with the studies matching b.
C2_DissociateIsDifference ==
    (Executed(resp) /\ resp.route \in {"dissociate_terms", "dissociate_locations"})
    => /\ resp.kind = "json"
       /\ Expected(resp) # {} => resp.status = 200
       /\ resp.status = 200 =>
            /\ Range(resp.body.study_ids) = Expected(resp)
            /\ Range(resp.body.study_ids) \cap Excluded(resp) = {}

\* a dissociate answer from which a study matching both a and b was removed
C2_Witness ==
    /\ resp.route = "dissociate_terms"
    /\ resp.status = 200
    /\ StudiesWithTerm(resp.req[1]) \cap StudiesWithTerm(resp.req[2]) # {}
    /\ resp.body.study_ids # <<>>

-----------------------------------------------------------------------------
(* C3 *)

\* C3: on the four query routes, with valid input and no store failure, the
\* answer is 404 exactly when the query has no row and 200 otherwise; a 200
\* never carries an empty study_ids, and the 404 message names the requested
\* term or coordinate.
C3_NotFoundIffNoRows ==
    Executed(resp)
    => /\ resp.kind = "json"
       /\ resp.status \in {200, 404}
       /\ resp.status = 404 <=> Expected(resp) = {}
       /\ resp.status = 200 => resp.body.study_ids # <<>>
       /\ resp.status = 404 => resp.body.error.args = Named(resp)

\* a location without a study in a store that has coordinates
C3_Witness ==
    /\ resp.route = "locations_studies"
    /\ resp.status = 404
    /\ resp.body.error.args = <<1, 2, 3>>
    /\ store.coordinates # <<>>

-----------------------------------------------------------------------------
(* C4 *)

\* an integer as int() reads it: blanks, an optional sign, decimal digits, blanks
IntegerToken(t) ==
    \E lo, hi \in DOMAIN t :
        /\ lo <= hi
        /\ \A k \in DOMAIN t : (k < lo \/ k > hi) => t[k] = " "
        /\ LET start == IF t[lo] \in {"+", "-"} THEN lo + 1 ELSE lo
           IN  /\ start <= hi
               /\ \A k \in start .. hi : t[k] \in Digits

\* exactly three integer tokens separated by two underscores
ThreeIntegers(c) ==
    LET seps == {i \in DOMAIN c : c[i] = "_"}
    IN  /\ Cardinality(seps) = 2
        /\ LET i1 == CHOOSE i \in seps : \A j \in seps : i <= j
               i2 == CHOOSE i \in seps : \A j \in seps : j <= i
           IN  /\ IntegerToken(SubSeq(c, 1, i1 - 1))
               /\ IntegerToken(SubSeq(c, i1 + 1, i2 - 1))
               /\ IntegerToken(SubSeq(c, i2 + 1, Len(c)))

\* C4: GET /locations/{coords}/studies answers 400 exactly when coords is not
\* three integer tokens separated by '_', GET /dissociate/locations/{a}/{b}
\* exactly when a or b is not; "1_2_3" is read as (1, 2, 3).
C4_BadRequestIffMalformed ==
    /\ resp.route = "locations_studies" =>
          /\ resp.status = 400 <=> ~ThreeIntegers(resp.req[1])
          /\ (resp.req[1] = C123 /\ resp.status = 200) => resp.body.coordinates = <<1, 2, 3>>
          /\ (resp.req[1] = C123 /\ resp.status = 404) => resp.body.error.args = <<1, 2, 3>>
    /\ resp.route = "dissociate_locations" =>
          /\ resp.status = 400 <=> (~ThreeIntegers(resp.req[1]) \/ ~ThreeIntegers(resp.req[2]))
          /\ (resp.req[1] = C123 /\ resp.status = 200) => resp.body.coords_a = <<1, 2, 3>>
          /\ (resp.req[2] = C123 /\ resp.status = 200) => resp.body.coords_b = <<1, 2, 3>>

\* a dissociate request rejected for its second parameter alone, which has
\* three tokens
C4_Witness ==
    /\ resp.route = "dissociate_locations"
    /\ resp.status = 400
    /\ ThreeIntegers(resp.req[1])
    /\ ~ThreeIntegers(resp.req[2])
    /\ Len(split(resp.req[2])) = 3

-----------------------------------------------------------------------------
(* C5 *)

\* C5: every request to a query route or to /test_db ends with a JSON response
\* the handler built, with status 200, 400, 404 or 500; no exception leaves a
\* handler, obtaining the connection handle included.
C5_NoExceptionEscapes ==
    resp.route \in QueryRoutes \cup {"test_db"}
    => resp.kind = "json" /\ resp.status \in {200, 400, 404, 500}

-----------------------------------------------------------------------------
(* C6 *)

-----------------------------------------------------------------------------
(* C7 *)

\* C7: over any interleaving of simultaneously handled requests the engine is
\* constructed at most once and every get_engine call that returns gives the
\* same handle.
C7_SingleSharedInstance ==
    /\ created <= 1
    /\ \A t, u \in Threads : \A i \in DOMAIN ret[t], j \in DOMAIN ret[u] :
          (~ret[t][i].raised /\ ~ret[u][j].raised) => ret[t][i].handle = ret[u][j].handle

-----------------------------------------------------------------------------
(* C8 *)

SampleTable(n) ==
    CASE n = "coordinates_sample" -> store.coordinates
      [] n = "metadata_sample" -> store.metadata
      [] n = "annotations_terms_sample" -> store.annotations_terms

AsQueried(sample, table) ==
    /\ Len(sample) = Min(3, Len(table))
    /\ \A i \in DOMAIN sample : sample[i] \in Range(table)

\* C8: in GET /test_db a failure of an unguarded statement (schema, version,
\* a COUNT, entering or committing the transaction) gives 500 with ok false;
\* otherwise the answer is 200 with ok true, the counts as queried, and each
\* sample is empty if its query failed and as queried if not, whatever the
\* other samples did.
C8_PartialFailurePolicy ==
    (resp.route = "test_db" /\ resp.kind = "json")
    => /\ resp.fault # "none" => (resp.status = 500 /\ ~resp.body.ok)
       /\ resp.fault = "none" =>
            /\ resp.status = 200
            /\ resp.body.ok
            /\ resp.body.version = "PostgreSQL"
            /\ resp.body.coordinates_count = Len(store.coordinates)
            /\ resp.body.metadata_count = Len(store.metadata)
            /\ resp.body.annotations_terms_count = Len(store.annotations_terms)
            /\ \A n \in {"coordinates_sample", "metadata_sample", "annotations_terms_sample"} :
                  IF n \in resp.failed THEN resp.body[n] = <<>>
                  ELSE AsQueried(resp.body[n], SampleTable(n))

\* the metadata sample alone failed on a store with rows in all three tables
C8_Witness ==
    /\ resp.route = "test_db"
    /\ resp.kind = "json"
    /\ resp.status = 200
    /\ resp.failed = {"metadata_sample"}
    /\ store.metadata # <<>>
    /\ resp.body.coordinates_sample # <<>>
    /\ resp.body.annotations_terms_sample # <<>>

-----------------------------------------------------------------------------
(* C9 *)

\* C9 as stated: every 500 body of /test_db is exactly {ok: false, dialect,
\* error}, and ok is true exactly in 200 responses.
C9_ErrorBodyThreeFieldsOnly ==
    (resp.route = "test_db" /\ resp.kind = "json")
    => /\ resp.status = 500 =>
            /\ DOMAIN resp.body = {"ok", "dialect", "error"}
            /\ ~resp.body.ok
            /\ resp.body.error.args = <<resp.fault>>
       /\ resp.body.ok <=> resp.status = 200

\* the payload keys assigned before the statement that failed
AssignedBefore(fault) ==
    CASE fault \in {"begin", "set_search_path", "version"} -> {}
      [] fault = "coordinates_count" -> {"version"}
      [] fault = "metadata_count" -> {"version", "coordinates_count"}
      [] fault = "annotations_terms_count" -> {"version", "coordinates_count", "metadata_count"}
      [] fault = "commit" ->
            {"version", "coordinates_count", "metadata_count", "annotations_terms_count",
             "coordinates_sample", "metadata_sample", "annotations_terms_sample"}

\* C9 amended: every 500 body of /test_db has ok false, dialect and error (the
\* failure's message), and besides them exactly the version, count and sample
\* fields assigned before the statement that failed; ok is true exactly in 200
\* responses.
C9_ErrorBodyKeepsAssignedFields ==
    (resp.route = "test_db" /\ resp.kind = "json")
    => /\ resp.status = 500 =>
            /\ DOMAIN resp.body = {"ok", "dialect", "error"} \cup AssignedBefore(resp.fault)
            /\ ~resp.body.ok
            /\ resp.body.error.args = <<resp.fault>>
       /\ resp.body.ok <=> resp.status = 200

\* the second COUNT failed after version and the first count were assigned
C9_Witness ==
    /\ resp.route = "test_db"
    /\ resp.kind = "json"
    /\ resp.status = 500
    /\ resp.fault = "metadata_count"
    /\ "coordinates_count" \in DOMAIN resp.body

-----------------------------------------------------------------------------
(* C10 *)

SameRequest(r, q) == r.route = q.route /\ r.req = q.req

\* a query answer built without store failure to the request of `first`
Repeated ==
    /\ first.kind = "json"
    /\ resp.kind = "json"
    /\ resp.route \in QueryRoutes
    /\ resp.fault = "none"
    /\ SameRequest(resp, first)

RepeatAgrees ==
    Repeated =>
        /\ resp.status = first.status
        /\ resp.status = 200 => Range(resp.body.study_ids) = Range(first.body.study_ids)

\* C10: no request changes the store, and a query route asked again with the
\* same input, after any requests in between, gives the status and the set of
\* study ids of the first time.
C10_RepeatSameResult == [](RepeatAgrees) /\ [][store' = store]_vars

\* a term asked again after /test_db changed the session's search_path
C10_Witness ==
    /\ Repeated
    /\ resp.route = "terms_studies"
    /\ resp.status = 200
    /\ first.path = DefaultPath
    /\ search_path = NsPublicPath
    /\ _engine # <<>>

====
